---- MODULE Spec2Model ----
(***************************************************************************)
(* Model of ovisbot/extensions/cryptohack.py: the CryptoHack cog.          *)
(*                                                                         *)
(* Python strings are modelled as sequences of one-character strings, so   *)
(* that str.split, the "failed" substring test, str.replace and int() are  *)
(* computed character by character.  An optional value (None or a value)   *)
(* is a sequence of length 0 or 1.                                         *)
(***************************************************************************)
EXTENDS Integers, Sequences, FiniteSets, TLC

(***************************************************************************)
(* Bounds of the model.                                                    *)
(***************************************************************************)
\* discord users that issue connect / disconnect / stats
MaxUsers == 2
\* colon-separated fields of a raw score response handed to Score.parse
MaxFields == 8
\* mappings stored when the scoreboard command runs
MaxMappings == 11
\* mappings up to which every combination of answers is tried
MaxExhaustive == 4

(***************************************************************************)
(* String constants.                                                       *)
(***************************************************************************)
sAlice == <<"a", "l", "i", "c", "e">>
sBob == <<"b", "o", "b">>
sFailed == <<"f", "a", "i", "l", "e", "d">>
sScore == <<"s", "c", "o", "r", "e">>
sLookup == <<"l", "o", "o", "k", "u", "p">>
sEmpty == <<>>

\* Python's None and Some(v) for an optional value
None == <<>>
Some(v) == <<v>>

(***************************************************************************)
(* Python string primitives.                                               *)
(***************************************************************************)
\* sep.join(parts)
RECURSIVE Join(_, _)
Join(parts, sep) ==
    IF Len(parts) = 0 THEN <<>>
    ELSE IF Len(parts) = 1 THEN parts[1]
    ELSE parts[1] \o <<sep>> \o Join(Tail(parts), sep)

\* index of the first occurrence of character c in s, 0 when absent
RECURSIVE FindChar(_, _, _)
FindChar(s, c, i) ==
    IF i > Len(s) THEN 0
    ELSE IF s[i] = c THEN i
    ELSE FindChar(s, c, i + 1)

\* raw.split(":"): always at least one field, empty fields kept
RECURSIVE split(_, _)
split(s, sep) ==
    LET i == FindChar(s, sep, 1)
    IN  IF i = 0 THEN <<s>>
        ELSE <<SubSeq(s, 1, i - 1)>> \o split(SubSeq(s, i + 1, Len(s)), sep)

\* needle in s (substring test)
Contains(s, needle) ==
    \E i \in 1..(Len(s) - Len(needle) + 1) :
        SubSeq(s, i, i + Len(needle) - 1) = needle

\* s.replace(c, ""): every occurrence of the character c removed
RECURSIVE replace(_, _)
replace(s, c) ==
    IF Len(s) = 0 THEN <<>>
    ELSE IF Head(s) = c THEN replace(Tail(s), c)
    ELSE <<Head(s)>> \o replace(Tail(s), c)

(***************************************************************************)
(* int(s) on a str, base 10: surrounding whitespace is stripped, one sign  *)
(* is optional, digits may be grouped by single underscores.  Anything     *)
(* else raises ValueError.                                                 *)
(***************************************************************************)
Digits == {"0", "1", "2", "3", "4", "5", "6", "7", "8", "9"}
Whitespace == {" ", "\t", "\n"}

DigitVal(c) ==
    CASE c = "0" -> 0 [] c = "1" -> 1 [] c = "2" -> 2 [] c = "3" -> 3
      [] c = "4" -> 4 [] c = "5" -> 5 [] c = "6" -> 6 [] c = "7" -> 7
      [] c = "8" -> 8 [] c = "9" -> 9

RECURSIVE lstrip(_)
lstrip(s) ==
    IF Len(s) > 0 /\ Head(s) \in Whitespace THEN lstrip(Tail(s)) ELSE s

RECURSIVE rstrip(_)
rstrip(s) ==
    IF Len(s) > 0 /\ s[Len(s)] \in Whitespace
    THEN rstrip(SubSeq(s, 1, Len(s) - 1)) ELSE s

strip(s) == rstrip(lstrip(s))

\* the digit part of an int literal: digits, single underscores between digits
ValidDigits(d) ==
    /\ Len(d) > 0
    /\ d[1] \in Digits
    /\ d[Len(d)] \in Digits
    /\ \A i \in 1..Len(d) :
          \/ d[i] \in Digits
          \/ d[i] = "_" /\ d[i - 1] \in Digits /\ d[i + 1] \in Digits

RECURSIVE DigitsValue(_, _)
DigitsValue(d, acc) ==
    IF Len(d) = 0 THEN acc
    ELSE IF Head(d) = "_" THEN DigitsValue(Tail(d), acc)
    ELSE DigitsValue(Tail(d), 10 * acc + DigitVal(Head(d)))

\* int(s): [ok |-> TRUE, val |-> n], or ok = FALSE for a ValueError
int(s) ==
    LET t == strip(s)
        signed == Len(t) > 0 /\ t[1] \in {"+", "-"}
        d == IF signed THEN Tail(t) ELSE t
        v == DigitsValue(d, 0)
    IN  IF ValidDigits(d)
        THEN [ok |-> TRUE, val |-> IF signed /\ t[1] = "-" THEN 0 - v ELSE v]
        ELSE [ok |-> FALSE, val |-> 0]

(***************************************************************************)
(* class Score and Score.parse.                                            *)
(***************************************************************************)
Score(username, nums) ==
    [username |-> username, global_rank |-> nums[1], points |-> nums[2],
     total_points |-> nums[3], challs_solved |-> nums[4],
     total_challs |-> nums[5], num_users |-> nums[6]]

\* what a call ends in: a returned value, or a raised exception
Returned(v) == [exc |-> "none", msg |-> None, value |-> Some(v)]
Raised(type, msg) == [exc |-> type, msg |-> msg, value |-> None]

parse_swapped(raw) ==
    LET spl == split(raw, ":")
        rest == Tail(spl)
    IN  IF Len(spl) # 7 THEN Raised("AssertionError", None)
        ELSE IF \E i \in 1..6 : ~int(rest[i]).ok
        THEN Raised("ValueError", None)
        ELSE Returned(Score(spl[1], [i \in 1..6 |->
                 int(rest[IF i = 2 THEN 3 ELSE IF i = 3 THEN 2 ELSE i]).val]))

\* Score.parse(raw)
parse(raw) ==
    LET spl == split(raw, ":")
        rest == Tail(spl)
    IN  IF Len(spl) # 7 THEN Raised("AssertionError", None)
        ELSE IF \E i \in 1..6 : ~int(rest[i]).ok
        THEN Raised("ValueError", None)
        ELSE Returned(Score(spl[1], [i \in 1..6 |-> int(rest[i]).val]))

get_cryptohack_score_nocheck(res) ==
    [out |-> parse(res), parsed |-> <<res>>]

\* CryptoHack._get_cryptohack_score, given the text of the HTTP response:
\* what it ends in, and the arguments Score.parse was called with
get_cryptohack_score(res) ==
    IF Contains(res, sFailed)
    THEN [out |-> Raised("CryptoHackApiException", None), parsed |-> <<>>]
    ELSE [out |-> parse(res), parsed |-> <<res>>]

(***************************************************************************)
(* The mapping store: CryptoHackUserMapping (ovisbot.db_models), one       *)
(* record per discord user, in insertion order.                            *)
(***************************************************************************)
Mapping(cryptohack_user, discord_user_id) ==
    [cryptohack_user |-> cryptohack_user, discord_user_id |-> discord_user_id]

\* positions of the mappings of a discord user
IndexOf(st, id) == {i \in 1..Len(st) : st[i].discord_user_id = id}

\* CryptoHackUserMapping(...).save(): create, or replace the user's mapping
save(st, m) ==
    IF IndexOf(st, m.discord_user_id) = {}
    THEN Append(st, m)
    ELSE [i \in 1..Len(st) |->
             IF st[i].discord_user_id = m.discord_user_id THEN m ELSE st[i]]

\* CryptoHackUserMapping.objects.get({"discord_user_id": id})
objects_get(st, id) ==
    IF IndexOf(st, id) = {}
    THEN Raised("DoesNotExist", None)
    ELSE Returned(st[CHOOSE i \in IndexOf(st, id) : TRUE])

\* mapping.delete()
RECURSIVE delete(_, _)
delete(st, id) ==
    IF Len(st) = 0 THEN <<>>
    ELSE IF Head(st).discord_user_id = id THEN delete(Tail(st), id)
    ELSE <<Head(st)>> \o delete(Tail(st), id)

\* CryptoHackUserMapping.objects.all()
objects_all(st) == st

(***************************************************************************)
(* Messages and requests.                                                  *)
(***************************************************************************)
Text(parts) == [kind |-> "text", body |-> parts]
Embed(parts) == [kind |-> "embed", body |-> parts]

MsgNoToken == Text(<<"En mou edokes token! ...">>)
MsgLinked(cryptohack_user) == Text(<<"Linked CryptoHack as ", cryptohack_user, "!">>)
MsgNotLinked == Text(<<"Re levendi... en vrisko syndedemeno CryptoHack account! (!cryptohack connect <token>)">>)
MsgOops == Text(<<"Oups... kati epie lathos re tsiakko!">>)

\* requests.get(DISCORD_TOKEN_API_URL.format(token))
TokenRequest(token) == [url |-> "https://cryptohack.org/discord_token/{0}/", arg |-> token]
\* requests.get(USER_SCORE_API_URL, params={"username": cryptohack_user})
ScoreRequest(cryptohack_user) ==
    [url |-> "https://cryptohack.org/wechall/userscore/", arg |-> cryptohack_user]

\* what running a command callback does: the store it leaves, the messages it
\* sent, how it ended, the requests it issued, the arguments Score.parse got,
\* and whether success(ctx.message) was reached
Effect(st, snt, out, rq, prs, rc) ==
    [store |-> st, sent |-> snt, out |-> out, reqs |-> rq, parsed |-> prs,
     reacted |-> rc]

(***************************************************************************)
(* The commands.                                                           *)
(***************************************************************************)
sanitize_nopercent(token) == replace(replace(token, "/"), ".")

\* token.replace("/", "").replace(".", "").replace("%", "")
sanitize(token) == replace(replace(replace(token, "/"), "."), "%")

connect_tokenAsUser(st, author, token, res) ==
    IF token = None
    THEN Effect(st, <<MsgNoToken>>, Returned(None), <<>>, <<>>, FALSE)
    ELSE LET t == sanitize(token[1])
             rq == <<TokenRequest(t)>>
         IN  IF res.error # None
             THEN Effect(st, <<>>, Raised("CryptoHackApiException", res.error),
                         rq, <<>>, FALSE)
             ELSE IF res.user = None
             THEN Effect(st, <<>>, Raised("KeyError", None), rq, <<>>, FALSE)
             ELSE Effect(save(st, Mapping(t, author)),
                         <<MsgLinked(res.user[1])>>, Returned(None), rq, <<>>, TRUE)

\* CryptoHack.connect(ctx, token), res the decoded JSON body of the response
connect(st, author, token, res) ==
    IF token = None
    THEN Effect(st, <<MsgNoToken>>, Returned(None), <<>>, <<>>, FALSE)
    ELSE LET t == sanitize(token[1])
             rq == <<TokenRequest(t)>>
         IN  IF res.error # None
             THEN Effect(st, <<>>, Raised("CryptoHackApiException", res.error),
                         rq, <<>>, FALSE)
             ELSE IF res.user = None
             THEN Effect(st, <<>>, Raised("KeyError", None), rq, <<>>, FALSE)
             ELSE Effect(save(st, Mapping(res.user[1], author)),
                         <<MsgLinked(res.user[1])>>, Returned(None), rq, <<>>, TRUE)

disconnect_rawDelete(st, author) ==
    Effect(delete(st, author), <<>>, Returned(None), <<>>, <<>>, TRUE)

\* CryptoHack.disconnect(ctx)
disconnect(st, author) ==
    LET got == objects_get(st, author)
    IN  IF got.exc # "none"
        THEN Effect(st, <<>>, got, <<>>, <<>>, FALSE)
        ELSE Effect(delete(st, author), <<>>, Returned(None), <<>>, <<>>, TRUE)

StatsEmbed(score) ==
    Embed(<<score.username,
            <<"Rank", score.global_rank, score.num_users>>,
            <<"Score", score.points, score.total_points>>,
            <<"Solves", score.challs_solved, score.total_challs>>>>)

\* CryptoHack.stats(ctx, user): user is None or the argument's text, mentions
\* the ids of ctx.message.mentions, res the text of the score response
stats(st, author, user, mentions, res) ==
    LET user_id == IF user = None THEN Some(author)
                   ELSE IF Len(mentions) > 0 THEN Some(mentions[1]) ELSE None
    IN  IF user_id = None
        THEN Effect(st, <<>>, Returned(None), <<>>, <<>>, FALSE)
        ELSE LET got == objects_get(st, user_id[1])
             IN  IF got.exc # "none"
                 THEN Effect(st, <<>>, got, <<>>, <<>>, FALSE)
                 ELSE LET rq == <<ScoreRequest(got.value[1].cryptohack_user)>>
                          sc == get_cryptohack_score(res)
                      IN  IF sc.out.exc # "none"
                          THEN Effect(st, <<>>, sc.out, rq, sc.parsed, FALSE)
                          ELSE Effect(st, <<StatsEmbed(sc.out.value[1])>>,
                                      Returned(None), rq, sc.parsed, FALSE)

\* escape_md(self.bot.get_user(mapping.discord_user_id).name): the display
\* name of a discord user, one per user id (every mapped user is taken to be
\* known to the bot, so get_user does not return None)
display_name(discord_user_id) == <<"user", discord_user_id>>

\* limit = 10 in CryptoHack.scoreboard
limit == 10

Min(a, b) == IF a < b THEN a ELSE b

\* the list comprehension of CryptoHack.scoreboard from mapping i on: one score
\* request per mapping, in stored order, until one raises
RECURSIVE fetch_scores(_, _, _, _)
fetch_scores(mappings, resp, i, acc) ==
    IF i > Len(mappings) THEN acc
    ELSE LET sc == get_cryptohack_score(resp[i])
             asked == [acc EXCEPT
                          !.reqs = Append(@, ScoreRequest(mappings[i].cryptohack_user)),
                          !.parsed = @ \o sc.parsed]
         IN  IF sc.out.exc # "none"
             THEN [asked EXCEPT !.out = sc.out]
             ELSE fetch_scores(mappings, resp, i + 1,
                      [asked EXCEPT !.scores = Append(@,
                          <<display_name(mappings[i].discord_user_id),
                            sc.out.value[1]>>)])

\* x placed before the first entry with fewer or as many points
RECURSIVE insert_unstable(_, _)
insert_unstable(sorted, x) ==
    IF Len(sorted) = 0 THEN <<x>>
    ELSE IF Head(sorted)[2].points > x[2].points
    THEN <<Head(sorted)>> \o insert_unstable(Tail(sorted), x)
    ELSE <<x>> \o sorted

\* x placed after every entry with at least as many points
RECURSIVE insert_desc(_, _)
insert_desc(sorted, x) ==
    IF Len(sorted) = 0 THEN <<x>>
    ELSE IF Head(sorted)[2].points >= x[2].points
    THEN <<Head(sorted)>> \o insert_desc(Tail(sorted), x)
    ELSE <<x>> \o sorted

RECURSIVE sorted_unstable(_, _)
sorted_unstable(scores, acc) ==
    IF Len(scores) = 0 THEN acc
    ELSE sorted_unstable(Tail(scores), insert_unstable(acc, Head(scores)))

RECURSIVE sorted_from(_, _)
sorted_from(scores, acc) ==
    IF Len(scores) = 0 THEN acc
    ELSE sorted_from(Tail(scores), insert_desc(acc, Head(scores)))

sorted_reversed(scores) == sorted_unstable(scores, <<>>)

\* sorted(scores, key=lambda s: s[1].points, reverse=True): a stable sort
sorted_by_points(scores) == sorted_from(scores, <<>>)

\* "{0}. **{1}**\t{2}".format(idx + 1, s[0], s[1].points) for each entry
scoreboard_lines(scores) ==
    [idx \in 1..Len(scores) |->
        [pos |-> idx, name |-> scores[idx][1], points |-> scores[idx][2].points]]

ScoreboardEmbed(lines) == Embed(<<"CryptoHack Scoreboard", lines>>)

NoFetch == [scores |-> <<>>, reqs |-> <<>>, parsed |-> <<>>, out |-> Returned(None)]

scoreboard_limitFirst(st, resp) ==
    LET mappings == SubSeq(objects_all(st), 1, Min(limit, Len(st)))
        got == fetch_scores(mappings, resp, 1, NoFetch)
        scores == sorted_by_points(got.scores)
    IN  IF got.out.exc # "none"
        THEN Effect(st, <<>>, got.out, got.reqs, got.parsed, FALSE)
        ELSE Effect(st, <<ScoreboardEmbed(scoreboard_lines(scores))>>,
                    Returned(None), got.reqs, got.parsed, FALSE)

\* CryptoHack.scoreboard(ctx), resp[i] the text of the response to the score
\* request for the i-th stored mapping
scoreboard(st, resp) ==
    LET mappings == objects_all(st)
        got == fetch_scores(mappings, resp, 1, NoFetch)
        kept == SubSeq(got.scores, 1, Min(limit, Len(got.scores)))
        scores == sorted_by_points(kept)
    IN  IF got.out.exc # "none"
        THEN Effect(st, <<>>, got.out, got.reqs, got.parsed, FALSE)
        ELSE Effect(st, <<ScoreboardEmbed(scoreboard_lines(scores))>>,
                    Returned(None), got.reqs, got.parsed, FALSE)

\* CryptoHack.generic_error_handler(ctx, error): the messages it sends to
\* ctx.channel, original being error.original
generic_error_handler(original) ==
    IF original.exc = "DoesNotExist" THEN <<MsgNotLinked>>
    ELSE IF original.exc = "CryptoHackApiException" THEN <<MsgOops>>
    ELSE <<>>

(***************************************************************************)
(* Inputs: tokens, and what the remote service answers.                    *)
(***************************************************************************)
Users == 1..MaxUsers

\* "../../etc"
tEtc == <<".", ".", "/", ".", ".", "/", "e", "t", "c">>
\* "t0k"
tPlain == <<"t", "0", "k">>
\* "%2e%2f."
tPercent == <<"%", "2", "e", "%", "2", "f", ".">>
\* "./%"
tOnlyStripped == <<".", "/", "%">>
Tokens == {tEtc, tPlain, tPercent, tOnlyStripped}

\* the decoded JSON body of a /discord_token/ response: a dict that may hold
\* the keys "error" and "user"
TokenResponse(error, user) == [error |-> error, user |-> user]
TokenResponses ==
    {TokenResponse(None, Some(sAlice)), TokenResponse(None, Some(sBob)),
     TokenResponse(Some("Invalid token"), None),
     TokenResponse(Some("Invalid token"), Some(sAlice)),
     TokenResponse(None, None)}

f3 == <<"3">>
f9 == <<"9">>
f10 == <<"1", "0">>
f450 == <<"4", "5", "0">>
f500 == <<"5", "0", "0">>
f900 == <<"9", "0", "0">>
f990 == <<"9", "9", "0">>
f1000 == <<"1", "0", "0", "0">>
fNeg3 == <<"-", "3">>
fX == <<"x">>

\* "alice:3:900:1000:9:10:500"
rAlice == Join(<<sAlice, f3, f900, f1000, f9, f10, f500>>, ":")
\* "bob:9:450:1000:3:10:500"
rBob == Join(<<sBob, f9, f450, f1000, f3, f10, f500>>, ":")
\* "carol:900:990:1000:10:10:500": rank above num_users
rCarol == Join(<<<<"c", "a", "r", "o", "l">>, f900, f990, f1000, f10, f10, f500>>, ":")
\* "bob:failed:score:lookup"
rFailed == Join(<<sBob, sFailed, sScore, sLookup>>, ":")
\* "alice:3"
rShort == Join(<<sAlice, f3>>, ":")
\* "alice:x:900:1000:9:10:500"
rBadInt == Join(<<sAlice, fX, f900, f1000, f9, f10, f500>>, ":")
\* "bob:-3:450:1000:3:10:500"
rNegative == Join(<<sBob, fNeg3, f450, f1000, f3, f10, f500>>, ":")

\* texts of a /wechall/userscore/ response seen by stats
ScoreResponses == {rAlice, rBob, rFailed, rShort, rBadInt, rNegative}

\* responses to the score requests of one scoreboard run over n mappings: for
\* few mappings every combination of texts; for more, the three well-formed
\* texts in a repeating pattern (stride k, offset o), with at most one
\* request f answered by a failure or a malformed text
BoardTexts == <<rAlice, rBob, rCarol>>
BoardResponses(n) ==
    IF n <= MaxExhaustive
    THEN [1..n -> {rAlice, rBob, rCarol, rFailed, rShort}]
    ELSE {[i \in 1..n |->
              IF i = f THEN bad ELSE BoardTexts[((i * k + o) % 3) + 1]] :
             k \in 0..2, o \in 0..2, f \in 0..n, bad \in {rFailed, rShort}}

\* texts handed to Score.parse and _get_cryptohack_score on their own: n fields,
\* those of rAlice (then "3"), with field p replaced by f and, possibly, field
\* q by g
BaseFields == <<sAlice, f3, f900, f1000, f9, f10, f500>>
OddFields ==
    {sEmpty, sBob, sFailed, fX, fNeg3, f10, <<"0">>, <<"0", "0", "7">>,
     <<"+", "7">>, <<" ", "5">>, <<"5", " ">>, <<"1", "_", "0">>,
     <<"_", "1">>, <<"1", "_">>, <<"1", "_", "_", "0">>, <<"-">>,
     <<"-", " ", "1">>, <<"3", "x">>, <<"3", ".", "5">>,
     <<"u", "n", "f", "a", "i", "l", "e", "d", "1">>}
SecondFields == {fX, fNeg3}
Fields(n) == [i \in 1..n |-> IF i <= 7 THEN BaseFields[i] ELSE f3]
RawTexts ==
    {rFailed}
    \cup {Join([Fields(n) EXCEPT ![p] = f], ":") :
             n \in 1..MaxFields, p \in 1..MaxFields, f \in OddFields}
    \cup {Join([[Fields(n) EXCEPT ![p] = f] EXCEPT ![q] = g], ":") :
             n \in 1..MaxFields, p \in 1..MaxFields, f \in OddFields,
             q \in 1..MaxFields, g \in SecondFields}

(***************************************************************************)
(* State.                                                                  *)
(***************************************************************************)
VARIABLES
    store,      \* the CryptoHackUserMapping collection, in insertion order
    pre,        \* the collection when the last command started
    cmd,        \* the last command: its name, author and inputs
    sent,       \* the messages the last command sent, in order
    exc,        \* how the last command's callback ended (error.original)
    reqs,       \* the HTTP requests the last command issued, in order
    parsed,     \* the arguments of the last command's Score.parse calls
    reacted,    \* whether success(ctx.message) ran in the last command
    answers,    \* the texts the score service answers a scoreboard's requests with
    raw,        \* the text a direct call of Score.parse or the score fetch gets
    op,         \* which of the two was called on raw, "none" before the call
    ret         \* how that call ended

vars == <<store, pre, cmd, sent, exc, reqs, parsed, reacted, answers, raw, op, ret>>

Command(name, author, arg, res) ==
    [name |-> name, author |-> author, arg |-> arg, res |-> res]

\* discord.py running a command of the cog: the callback, then, when it
\* raised, the cog's error handler registered for it
Invoke(command, eff) ==
    /\ pre' = store
    /\ store' = eff.store
    /\ cmd' = command
    /\ exc' = eff.out
    /\ sent' = IF eff.out.exc = "none" THEN eff.sent
               ELSE eff.sent \o generic_error_handler(eff.out)
    /\ reqs' = eff.reqs
    /\ parsed' = eff.parsed
    /\ reacted' = eff.reacted
    /\ UNCHANGED <<answers, raw, op, ret>>

Idle(st) ==
    /\ store = st
    /\ pre = st
    /\ cmd = Command("none", 0, None, None)
    /\ sent = <<>>
    /\ exc = Returned(None)
    /\ reqs = <<>>
    /\ parsed = <<>>
    /\ reacted = FALSE
    /\ op = "none"
    /\ ret = Returned(None)

\* the bot starts with an empty collection
Init ==
    /\ Idle(<<>>)
    /\ answers = <<>>
    /\ raw = <<>>

Connect ==
    \E author \in Users, token \in {None} \cup {Some(t) : t \in Tokens},
       res \in TokenResponses :
        Invoke(Command("connect", author, token, Some(res)),
               connect(store, author, token, res))

Disconnect ==
    \E author \in Users :
        Invoke(Command("disconnect", author, None, None),
               disconnect(store, author))

\* stats: no argument, an argument that mentions nobody, or a mention
Stats ==
    \E author \in Users, res \in ScoreResponses,
       target \in {None, Some(<<>>)} \cup {Some(<<u>>) : u \in Users} :
        Invoke(Command("stats", author, target, Some(res)),
               stats(store, author,
                     IF target = None THEN None ELSE Some("user"),
                     IF target = None THEN <<>> ELSE target[1], res))

Next == Connect \/ Disconnect \/ Stats

Spec == Init /\ [][Next]_vars

(***************************************************************************)
(* The scoreboard over a collection of up to MaxMappings mappings, as left *)
(* by users 1..n linking in turn.                                          *)
(***************************************************************************)
LinkedInTurn(n) ==
    [i \in 1..n |-> Mapping(IF i % 2 = 1 THEN sAlice ELSE sBob, i)]

InitBoard ==
    /\ \E n \in 0..MaxMappings :
          /\ Idle(LinkedInTurn(n))
          /\ answers \in BoardResponses(n)
    /\ raw = <<>>

Scoreboard ==
    \E author \in Users :
        Invoke(Command("scoreboard", author, None, None),
               scoreboard(store, answers))

NextBoard == Scoreboard

SpecBoard == InitBoard /\ [][NextBoard]_vars

(***************************************************************************)
(* Score.parse and _get_cryptohack_score called on a text of their own.    *)
(***************************************************************************)
InitScore ==
    /\ Idle(<<>>)
    /\ answers = <<>>
    /\ raw \in RawTexts

CallParse ==
    /\ op = "none"
    /\ op' = "parse"
    /\ ret' = parse(raw)
    /\ parsed' = <<raw>>
    /\ UNCHANGED <<store, pre, cmd, sent, exc, reqs, reacted, answers, raw>>

CallGetScore ==
    /\ op = "none"
    /\ op' = "get_cryptohack_score"
    /\ ret' = get_cryptohack_score(raw).out
    /\ parsed' = get_cryptohack_score(raw).parsed
    /\ UNCHANGED <<store, pre, cmd, sent, exc, reqs, reacted, answers, raw>>

NextScore == CallParse \/ CallGetScore

SpecScore == InitScore /\ [][NextScore]_vars

(***************************************************************************)
(* Properties.                                                             *)
(***************************************************************************)
\* the mapping of a discord user in a collection that holds exactly one
MappingOf(st, id) == st[CHOOSE i \in IndexOf(st, id) : TRUE]

GaveToken == cmd.name = "connect" /\ cmd.arg # None
Linked == GaveToken /\ exc.exc = "none"

\* C1: after any sequence of connect and disconnect commands the store holds
\* at most one mapping per discord user, and a successful connect leaves
\* exactly one mapping for its author, carrying the username the token just
\* resolved to, whatever the author was linked to before.
C1_OneMappingPerUser ==
    /\ \A u \in Users : Cardinality(IndexOf(store, u)) <= 1
    /\ Linked =>
          /\ Cardinality(IndexOf(store, cmd.author)) = 1
          /\ MappingOf(store, cmd.author).cryptohack_user = cmd.res[1].user[1]
          /\ Len(store) = Len(pre) + (IF IndexOf(pre, cmd.author) = {} THEN 1 ELSE 0)

\* a second successful connect of a user, resolving to another username
C1_Relinked ==
    /\ Linked
    /\ IndexOf(pre, cmd.author) # {}
    /\ MappingOf(pre, cmd.author).cryptohack_user # cmd.res[1].user[1]
    /\ MappingOf(store, cmd.author).cryptohack_user = cmd.res[1].user[1]

\* C2: disconnect by a user who has no mapping ends in DoesNotExist, answered
\* with the "not linked" message, and leaves the store as it was; no
\* disconnect removes a mapping of a user other than its author.
C2_DisconnectUnmapped ==
    cmd.name = "disconnect" =>
        /\ IndexOf(pre, cmd.author) = {} =>
              /\ exc.exc = "DoesNotExist"
              /\ sent = <<MsgNotLinked>>
              /\ store = pre
              /\ ~reacted
        /\ \A i \in 1..Len(pre) :
              pre[i].discord_user_id # cmd.author =>
                  \E j \in 1..Len(store) : store[j] = pre[i]

\* a disconnect by an unmapped user while another user is mapped
C2_UnmappedAmongMapped ==
    /\ cmd.name = "disconnect"
    /\ IndexOf(pre, cmd.author) = {}
    /\ Len(pre) > 0
    /\ store = pre
    /\ sent = <<MsgNotLinked>>

\* the lines of the scoreboard the last command sent
BoardSent == Len(sent) = 1 /\ sent[1].kind = "embed"
Lines == sent[1].body[2]

\* how the score request for the i-th mapping ends, given the answers
AnswerFails(i) == get_cryptohack_score(answers[i]).out.exc # "none"
FirstFailure ==
    IF \E i \in 1..Len(store) : AnswerFails(i)
    THEN CHOOSE i \in 1..Len(store) :
            AnswerFails(i) /\ \A j \in 1..(i - 1) : ~AnswerFails(j)
    ELSE 0

\* the (name, points) pairs of the mappings 1..n, in stored order
FetchedPairs(n) ==
    [i \in 1..n |-> <<display_name(store[i].discord_user_id),
                      parse(answers[i]).value[1].points>>]
LinePairs == [i \in 1..Len(Lines) |-> <<Lines[i].name, Lines[i].points>>]

\* C3 as claimed: one scoreboard run issues at most `limit` score requests,
\* and a failing answer for a mapping beyond the first `limit` changes
\* nothing.
C3_LimitBeforeFetch ==
    cmd.name = "scoreboard" =>
        /\ Len(reqs) <= limit
        /\ (FirstFailure > limit => BoardSent)

\* C3, amended: a scoreboard run issues one score request per stored mapping,
\* in stored order, up to and including the first one that fails; so it issues
\* more than `limit` requests when more mappings are stored, and a failure of
\* any mapping, also one beyond the first `limit`, ends the run without a
\* scoreboard.  The limit only cuts the fetched list to its first `limit`
\* entries.
C3_FetchesEveryMapping ==
    cmd.name = "scoreboard" =>
        LET last == IF FirstFailure = 0 THEN Len(store) ELSE FirstFailure
        IN  /\ reqs = [i \in 1..last |-> ScoreRequest(store[i].cryptohack_user)]
            /\ FirstFailure # 0 => exc.exc # "none" /\ ~BoardSent
            /\ FirstFailure = 0 =>
                  /\ exc.exc = "none"
                  /\ BoardSent
                  /\ Len(Lines) = Min(limit, Len(store))

\* a run over more than `limit` mappings that fetched every one of them
C3_FetchedBeyondLimit ==
    /\ cmd.name = "scoreboard"
    /\ Len(store) > limit
    /\ Len(reqs) = Len(store)
    /\ exc.exc = "none"
    /\ BoardSent
    /\ Len(Lines) = limit

\* the lines are the pairs of src ranked: as many, numbered from 1, by points
\* descending, and among the pairs of equal points in the order of src
Ranked(src) ==
    /\ Len(Lines) = Len(src)
    /\ \A i \in 1..Len(Lines) : Lines[i].pos = i
    /\ \A i \in 1..(Len(Lines) - 1) : Lines[i].points >= Lines[i + 1].points
    /\ \A v \in {src[i][2] : i \in 1..Len(src)} \cup
                {Lines[i].points : i \in 1..Len(Lines)} :
          LET HasPoints(e) == e[2] = v
          IN  SelectSeq(LinePairs, HasPoints) = SelectSeq(src, HasPoints)

\* C4 as claimed: the scoreboard ranks all N fetched records.
C4_AllFetchedRanked ==
    (cmd.name = "scoreboard" /\ exc.exc = "none") =>
        BoardSent /\ Ranked(FetchedPairs(Len(reqs)))

\* C4, amended: given N fetched records, the scoreboard is the first
\* min(N, limit) of them in fetch order, sorted by points descending, equal
\* points keeping their fetch order, numbered 1..min(N, limit).
C4_FirstLimitRanked ==
    (cmd.name = "scoreboard" /\ exc.exc = "none") =>
        BoardSent /\ Ranked(FetchedPairs(Min(limit, Len(reqs))))

\* a scoreboard of limit entries out of more, reordered and with a tie
C4_RankedWithTies ==
    /\ cmd.name = "scoreboard"
    /\ exc.exc = "none"
    /\ BoardSent
    /\ Len(reqs) > limit
    /\ Len(Lines) = limit
    /\ LinePairs # FetchedPairs(limit)
    /\ \E i \in 1..(limit - 1) : Lines[i].points = Lines[i + 1].points
    /\ Lines[1].points > Lines[limit].points

(***************************************************************************)
(* Properties of Score.parse and _get_cryptohack_score, stated on the text *)
(* itself: its colons, and the characters between them.                    *)
(***************************************************************************)
Colons(s) == {i \in 1..Len(s) : s[i] = ":"}
NthColon(s, k) ==
    CHOOSE i \in Colons(s) : Cardinality({j \in Colons(s) : j < i}) = k - 1
\* the k-th colon-delimited field of s
FieldAt(s, k) ==
    SubSeq(s, IF k = 1 THEN 1 ELSE NthColon(s, k - 1) + 1,
              IF k = Cardinality(Colons(s)) + 1 THEN Len(s)
              ELSE NthColon(s, k) - 1)
\* a non-negative decimal integer: one or more digits
IsDecimal(f) == Len(f) > 0 /\ \A i \in 1..Len(f) : f[i] \in Digits
RECURSIVE DecimalOf(_)
DecimalOf(f) ==
    IF Len(f) = 0 THEN 0
    ELSE 10 * DecimalOf(SubSeq(f, 1, Len(f) - 1)) + DigitVal(f[Len(f)])
\* 7 fields, the 6 trailing ones non-negative decimal integers
WellFormed(s) ==
    /\ Cardinality(Colons(s)) = 6
    /\ \A k \in 2..7 : IsDecimal(FieldAt(s, k))
HasMarker(s) ==
    \E i \in 1..Len(s), j \in 1..Len(s) : SubSeq(s, i, j) = sFailed

\* C5: for every response text that contains "failed", the score fetch raises
\* CryptoHackApiException and Score.parse is not called on it.
C5_FailedNeverParsed ==
    (op = "get_cryptohack_score" /\ HasMarker(raw)) =>
        /\ ret.exc = "CryptoHackApiException"
        /\ ret.value = None
        /\ parsed = <<>>

\* the score fetch answered "bob:failed:score:lookup"
C5_FailedLookup ==
    /\ op = "get_cryptohack_score"
    /\ raw = rFailed
    /\ ret.exc = "CryptoHackApiException"
    /\ parsed = <<>>

\* C6 as claimed: Score.parse fails on every text that does not have 7 fields
\* or has a trailing field that is not a non-negative decimal integer.
C6_MalformedRejected ==
    (op = "parse" /\ ~WellFormed(raw)) => (ret.exc # "none" /\ ret.value = None)

\* C7: for every text of exactly 7 fields whose 6 trailing fields are decimal
\* integers, Score.parse returns the record holding the first field verbatim
\* as username and the values of the trailing fields in their order, with no
\* check across fields; "alice:3:900:1000:9:10:500" gives
\* {alice, 3, 900, 1000, 9, 10, 500}.
C7_ParseWellFormed ==
    /\ (op = "parse" /\ WellFormed(raw)) =>
          ret = Returned([username |-> FieldAt(raw, 1),
                          global_rank |-> DecimalOf(FieldAt(raw, 2)),
                          points |-> DecimalOf(FieldAt(raw, 3)),
                          total_points |-> DecimalOf(FieldAt(raw, 4)),
                          challs_solved |-> DecimalOf(FieldAt(raw, 5)),
                          total_challs |-> DecimalOf(FieldAt(raw, 6)),
                          num_users |-> DecimalOf(FieldAt(raw, 7))])
    /\ (op = "parse" /\ raw = rAlice) =>
          ret = Returned([username |-> sAlice, global_rank |-> 3,
                          points |-> 900, total_points |-> 1000,
                          challs_solved |-> 9, total_challs |-> 10,
                          num_users |-> 500])

\* a well-formed text parsed to a record whose rank exceeds its user count
C7_InconsistentPassedThrough ==
    /\ op = "parse"
    /\ WellFormed(raw)
    /\ ret.exc = "none"
    /\ ret.value[1].global_rank > ret.value[1].num_users
    /\ ret.value[1].points # ret.value[1].total_points

(***************************************************************************)
(* Properties of connect and of the error handler.                         *)
(***************************************************************************)
Kept(c) == c \notin {"/", ".", "%"}
sEtc == <<"e", "t", "c">>

\* C8 as claimed: the token "../../etc" is forwarded as "etcetc".
C8_EtcEtc ==
    (GaveToken /\ cmd.arg[1] = tEtc) =>
        (Len(reqs) = 1 /\ reqs[1].arg = sEtc \o sEtc)

\* C8, amended: connect forwards to the identity-resolution URL the token with
\* every "/", "." and "%" removed and the other characters kept in order; the
\* token "../../etc" is forwarded as "etc".
C8_TokenSanitized ==
    GaveToken =>
        /\ reqs = <<TokenRequest(SelectSeq(cmd.arg[1], Kept))>>
        /\ \A i \in 1..Len(reqs[1].arg) : Kept(reqs[1].arg[i])
        /\ cmd.arg[1] = tEtc => reqs[1].arg = sEtc

\* connect with a token holding "%" and with the token "../../etc"
C8_PercentStripped ==
    /\ GaveToken
    /\ \E i \in 1..Len(cmd.arg[1]) : cmd.arg[1][i] = "%"
    /\ \A i \in 1..Len(reqs[1].arg) : Kept(reqs[1].arg[i])
    /\ Len(reqs[1].arg) > 0

\* C9 as claimed: a command that ends in a malformed score text (the
\* AssertionError or ValueError of Score.parse), a CryptoHackApiException or
\* a DoesNotExist sends exactly one message.
C9_EveryFailureAnswered ==
    (cmd.name # "none" /\
     exc.exc \in {"AssertionError", "ValueError", "CryptoHackApiException",
                  "DoesNotExist"}) =>
        Len(sent) = 1

\* C10 as claimed: when the response to connect's token carries an error, the
\* command raises CryptoHackApiException, the store is left as it was, and the
\* message sent is the remote error text.
C10_RemoteMessageShown ==
    (GaveToken /\ cmd.res[1].error # None) =>
        /\ exc.exc = "CryptoHackApiException"
        /\ store = pre
        /\ sent = <<Text(<<cmd.res[1].error[1]>>)>>

====
